---------------------------- MODULE Spec2Model ----------------------------
(***************************************************************************)
(* FinPlanBot: the hybrid intent-resolution and slot-filling pipeline.     *)
(*                                                                         *)
(*   SpecParser  the credential pool of AIParser and concurrent            *)
(*               parse_message requests (src/ai_parser.py).                *)
(*   SpecLocal   the rule-based extractor AIParser._local_parse applied to *)
(*               bounded texts (src/ai_parser.py).                         *)
(*   Spec        the per-user transaction session (aiogram FSM handlers of *)
(*               src/main.py) over the storage of src/database.py.  A      *)
(*               handler is one step, from its dispatch to its end; only   *)
(*               confirm_transaction is split at the network await between *)
(*               its write and its state.clear().                          *)
(*   SpecConfirm concurrent presses of the confirm button on one completed *)
(*               draft.                                                    *)
(***************************************************************************)
EXTENDS Bags, FiniteSets, Integers, Sequences, TLC

VARIABLES
    \* ---- AIParser (src/ai_parser.py) ----
    client,                 \* self.client: NoClient or the key index it was built with
    current_api_key_index,  \* self.current_api_key_index
    failed_keys,            \* self.failed_keys
    pc,                     \* per request task: where parse_message is suspended
    api_key_index,          \* per task: local api_key_index of _create_client_with_failover
    attempt,                \* per task: local attempt of _create_client_with_failover
    callKey,                \* per task: key of the client handed to generate_content
    result,                 \* per task: what the last parse_message returned
    calls,                  \* per task: generate_content calls of the request so far
    event,                  \* the last thing the remote side answered (the parser's log line)
    \* ---- AIParser._local_parse applied to one text ----
    text,                   \* the message text, a sequence of words
    intent,                 \* NoIntent, or the dict _local_parse returned
    \* ---- the transaction session (src/main.py) ----
    fsm,                    \* per user: the FSM state of MemoryStorage
    data,                   \* per user: the FSM data (the transaction draft)
    inflight,               \* per user: confirm_transaction calls suspended after the write
    \* ---- storage (src/database.py) ----
    cards_sources,          \* table cards_sources: id -> row
    card_seq,               \* AUTOINCREMENT counter of cards_sources
    transactions,           \* table transactions, in insertion order
    categories,             \* table categories: a bag of rows (no UNIQUE constraint)
    \* ---- history ----
    last,                   \* per user: the kind of update handled last
    entered,                \* per user: the state the open session was entered at
    \* ---- main() (src/main.py) ----
    main_pc,                \* where main() is: preflight, loop, waiting, except, or ended
    main_attempt,           \* the loop variable attempt of main()
    stop_event,             \* stop_event.is_set()
    polling_task,           \* the task of dp.start_polling: none, running, or how it ended
    started                 \* history: how many times main() created the polling task

parserVars == <<client, current_api_key_index, failed_keys, pc, api_key_index,
                attempt, callKey, result, calls, event>>

localVars == <<text, intent>>

botVars == <<fsm, data, inflight, cards_sources, card_seq, transactions,
             categories, last, entered>>

mainVars == <<main_pc, main_attempt, stop_event, polling_task, started>>

vars == <<parserVars, localVars, botVars, mainVars>>

-----------------------------------------------------------------------------
(* Bounds *)
NumKeys == 3
NumTasks == 2
MaxWords == 3
MaxCards == 2
MaxTx == 1
MaxConfirms == 2
MaxAmount == 1

Keys == 0 .. (NumKeys - 1)
Tasks == 1 .. NumTasks
NoClient == -1

-----------------------------------------------------------------------------
(* AIParser._local_parse: the rule-based extractor.                        *)
(* A text is a sequence of words (split at whitespace); `kw in t` is the   *)
(* substring test: a one-word keyword is found inside a word, a keyword of *)
(* several words in consecutive words.                                     *)

Absent == "absent"
\* A number that may be missing: <<>> is None, <<n>> is the number n.
NoNumber == <<>>
Number(n) == <<n>>
NoIntent == [section |-> "none", action |-> "none", amount |-> NoNumber,
             type |-> Absent, currency |-> Absent, date |-> Absent,
             start_date |-> Absent, end_date |-> Absent]
Today == "today"

Vocabulary ==
    {"main", "menu", "home", "HOME", "homework", "finance", "planning",
     "settings", "help", "how", "to", "admin", "report",
     "paid", "received", "200", "0", "toman", "2025-01-01", "task", "users", "rent",
     "cards"}

\* All texts of at most n words.
RECURSIVE TextsUpTo(_)
TextsUpTo(n) ==
    IF n = 0 THEN {<<>>}
    ELSE LET shorter == TextsUpTo(n - 1) IN
         shorter \cup {Append(s, w) : s \in {x \in shorter : Len(x) = n - 1}, w \in Vocabulary}

Texts == TextsUpTo(MaxWords)

\* Two sentences, word by word.  The first is Persian, written here in Latin
\* letters: "emruz" (today), "fa-200" (200 in Persian digits), "tomn" (the
\* colloquial spelling of toman, which is not the spelling "toman" of the
\* currency list), "ghaza" (food), "dadam" (I gave).
SampleTexts ==
    {<<"emruz", "fa-200", "tomn", "ghaza", "dadam">>, <<"200,000", "toman", "rent">>}

\* The two forms of a report over a range of dates: the English one, and the
\* Persian one in Latin letters, "gozaresh" (report), "az" (from), "ta" (to).
RangeTexts ==
    {<<"report", "from", "2025-01-01", "to", "2025-01-31">>,
     <<"gozaresh", "az", "2025-01-01", "ta", "2025-01-31">>}

\* str.lower() on one word.
LowerWord(w) == IF w = "HOME" THEN "home" ELSE w

\* t = text.strip().lower()
Lower(txt) == [i \in 1 .. Len(txt) |-> LowerWord(txt[i])]

\* The keyword word k occurs inside the word w.
WordHas(w, k) == w = k \/ (w = "homework" /\ k = "home")

\* The word w ends with the keyword word k, begins with it.
WordEndsWith(w, k) == w = k
WordStartsWith(w, k) == w = k \/ (w = "toman" /\ k = "to") \/ (w = "homework" /\ k = "home")

\* kw in t
KwIn(kw, t) ==
    \E i \in 1 .. Len(t) :
        /\ i + Len(kw) - 1 <= Len(t)
        /\ IF Len(kw) = 1 THEN WordHas(t[i], kw[1])
           ELSE /\ WordEndsWith(t[i], kw[1])
                /\ \A j \in 2 .. Len(kw) - 1 : t[i + j - 1] = kw[j]
                /\ WordStartsWith(t[i + Len(kw) - 1], kw[Len(kw)])

\* nav_map, in the order of the dict (the ASCII keywords of each destination).
NavOrder == <<"main_menu", "finance_main", "planning_main", "settings", "help",
              "admin", "reports">>

NavKeywords(key) ==
    CASE key = "main_menu" -> {<<"main", "menu">>, <<"home">>, <<"menu">>}
      [] key = "finance_main" -> {<<"finance">>}
      [] key = "planning_main" -> {<<"planning">>}
      [] key = "settings" -> {<<"settings">>}
      [] key = "help" -> {<<"help">>, <<"how", "to">>}
      [] key = "admin" -> {<<"admin">>}
      [] key = "reports" -> {<<"report">>, <<"gozaresh">>}

Nav(section, action) ==
    [section |-> section, action |-> action, amount |-> NoNumber, type |-> Absent,
     currency |-> Absent, date |-> Absent, start_date |-> Absent, end_date |-> Absent]

\* What the navigation loop returns for a destination.
NavIntent(key) ==
    CASE key = "main_menu" -> Nav("main", "menu")
      [] key = "finance_main" -> Nav("finance", "main")
      [] key = "planning_main" -> Nav("planning", "main")
      [] key = "settings" -> Nav("settings", "change_language")
      [] key = "help" -> Nav("help", "show")
      [] key = "admin" -> Nav("admin", "users")
      [] key = "reports" -> Nav("finance", "monthly_report")

\* for key, kws in nav_map.items(): for kw in kws: if kw in t: return ...
\* The index in NavOrder of the first destination with a keyword in t, 0 if none.
RECURSIVE FirstNav(_, _)
FirstNav(i, t) ==
    IF i > Len(NavOrder) THEN 0
    ELSE IF \E kw \in NavKeywords(NavOrder[i]) : KwIn(kw, t) THEN i
    ELSE FirstNav(i + 1, t)

income_words == {"received"}
expense_words == {"paid"}

\* t_type: income is tested first and the expense test keeps an earlier value.
TxType(t) ==
    LET afterIncome == IF \E w \in income_words : KwIn(<<w>>, t) THEN "income" ELSE Absent IN
    IF \E w \in expense_words : KwIn(<<w>>, t)
    THEN (IF afterIncome = Absent THEN "expense" ELSE afterIncome)
    ELSE afterIncome

\* t_norm = t.translate(fa_digits): Persian digits become ASCII digits.
Norm(w) == IF w = "fa-200" THEN "200" ELSE w

\* The words of t_norm that hold a digit; each of them begins with one.
HasDigits(w) == Norm(w) \in {"200", "0", "2025-01-01", "2025-01-31", "200,000"}
\* \d+ at the head of a word.
Digits(w) ==
    CASE w = "200" -> 200 [] w = "0" -> 0 [] w \in {"2025-01-01", "2025-01-31"} -> 2025

\* The words that are digit groups from end to end: \d{1,3}(?:,\d{3})*.
GroupWords == {"200", "0", "200,000"}

\* A faulty variant: the number ends at the first separator.
LeadGroupUpToSeparator(w) ==
    CASE w = "200" -> 200 [] w = "0" -> 0 [] w = "200,000" -> 200
      [] w \in {"2025-01-01", "2025-01-31"} -> 202

\* The digits of the groups a word begins with, separators removed: the whole
\* of a group word, the first three digits of another word.
LeadGroup(w) ==
    CASE w = "200" -> 200 [] w = "0" -> 0 [] w = "200,000" -> 200000
      [] w \in {"2025-01-01", "2025-01-31"} -> 202

\* The power of ten the groups of LeadGroup(w) shift an earlier number by.
GroupShift(w) == IF w = "200,000" THEN 1000000 ELSE 1000

\* [\s,]\d{3} can go on into the word: it begins with three digits.
StartsWithThreeDigits(w) == w \in {"200", "200,000", "2025-01-01", "2025-01-31"}

\* (?:[\s,]\d{3})+ after the word j, which the match has consumed whole: the
\* groups of the next words are taken while they begin with three digits.
\* The result is <<digits read, last word touched, ended at the end of a word>>.
RECURSIVE Grouped(_, _, _)
Grouped(t, j, acc) ==
    IF j < Len(t) /\ StartsWithThreeDigits(Norm(t[j + 1]))
    THEN LET w == Norm(t[j + 1]) IN
         IF w \in GroupWords
         THEN Grouped(t, j + 1, acc * GroupShift(w) + LeadGroup(w))
         ELSE <<acc * GroupShift(w) + LeadGroup(w), j + 1, FALSE>>
    ELSE <<acc, j, TRUE>>

\* re.search: the leftmost word with digits, 0 if none.
RECURSIVE FirstDigits(_, _)
FirstDigits(i, t) ==
    IF i > Len(t) THEN 0
    ELSE IF HasDigits(t[i]) THEN i
    ELSE FirstDigits(i + 1, t)

\* amount_match: group 1 of (\d{1,3}(?:[\s,]\d{3})+|\d+) at the leftmost word
\* with digits.  A group word starts the first alternative (or the second with
\* the same digits when no group follows); another word gives its \d+.
AmountMatch(t) ==
    LET i == FirstDigits(1, t) IN
    IF Norm(t[i]) \in GroupWords
    THEN Grouped(t, i, LeadGroup(Norm(t[i])))
    ELSE <<Digits(Norm(t[i])), i, FALSE>>

\* amount = float(raw_amt), None without a match.
Amount(t) ==
    IF FirstDigits(1, t) = 0 THEN NoNumber ELSE Number(AmountMatch(t)[1])

\* Group 2 of the amount regex: a currency word right after the number and
\* optional whitespace.
Currency(t) ==
    IF FirstDigits(1, t) = 0 THEN Absent
    ELSE LET m == AmountMatch(t) IN
         IF m[3] /\ m[2] < Len(t) /\ t[m[2] + 1] = "toman" THEN "toman" ELSE Absent

\* The words \d{4}[/-]\d{2}[/-]\d{2} matches.
IsDate(w) == w \in {"2025-01-01", "2025-01-31"}

\* date_match = re.search(r"(\d{4}[/-]\d{2}[/-]\d{2})", t_norm)
DateOf(t, current_date) ==
    IF \E i \in 1 .. Len(t) : IsDate(t[i])
    THEN t[CHOOSE i \in 1 .. Len(t) : IsDate(t[i]) /\ \A j \in 1 .. i - 1 : ~IsDate(t[j])]
    ELSE current_date

\* `if t_type or amount:` (None and 0.0 are both falsy)
LooksLikeTransaction(t) ==
    TxType(t) # Absent \/ (Amount(t) # NoNumber /\ Amount(t) # Number(0))

\* The dict built at `if t_type or amount:`.
TransactionIntent(t, current_date) ==
    [section |-> "finance", action |-> "add_transaction",
     amount |-> IF Amount(t) = NoNumber THEN Number(0) ELSE Amount(t),
     type |-> IF TxType(t) = Absent THEN "expense" ELSE TxType(t),
     currency |-> Currency(t),
     start_date |-> Absent, end_date |-> Absent,
     date |-> DateOf(t, current_date)]

\* rng = re.search(r"(?:report|...)\s*(?:from|...)\s*(date)\s*(?:to|...)\s*(date)"):
\* the index of the word the match begins in, 0 without a match.
RangeAt(t) ==
    IF \E i \in 1 .. Len(t) - 4 :
           /\ t[i] \in {"report", "gozaresh"} /\ t[i + 1] \in {"from", "az"}
           /\ IsDate(t[i + 2]) /\ t[i + 3] \in {"to", "ta"} /\ IsDate(t[i + 4])
    THEN CHOOSE i \in 1 .. Len(t) - 4 :
           /\ t[i] \in {"report", "gozaresh"} /\ t[i + 1] \in {"from", "az"}
           /\ IsDate(t[i + 2]) /\ t[i + 3] \in {"to", "ta"} /\ IsDate(t[i + 4])
    ELSE 0

\* The stages after transaction detection that the vocabulary reaches.
LaterStages(t, current_date) ==
    IF RangeAt(t) # 0
    THEN [Nav("finance", "report_range") EXCEPT !.start_date = t[RangeAt(t) + 2],
                                                !.end_date = t[RangeAt(t) + 4]]
    ELSE IF KwIn(<<"cards">>, t) THEN Nav("finance", "manage_cards_sources")
    ELSE IF KwIn(<<"task">>, t)
    THEN [Nav("planning", "add_plan") EXCEPT !.date = current_date]
    ELSE IF KwIn(<<"users">>, t) THEN Nav("admin", "users")
    ELSE [NoIntent EXCEPT !.action = "fallback_to_buttons"]

\* A faulty variant: transaction detection before the navigation loop.
LocalParseTransactionFirst(txt, current_date) ==
    LET t == Lower(txt) IN
    IF LooksLikeTransaction(t) THEN TransactionIntent(t, current_date)
    ELSE IF FirstNav(1, t) # 0 THEN NavIntent(NavOrder[FirstNav(1, t)])
    ELSE LaterStages(t, current_date)

\* A faulty variant: the result depends on the credential pool.
LocalParseByPool(txt, current_date) ==
    LET t == Lower(txt) IN
    IF failed_keys # {} THEN LaterStages(t, current_date)
    ELSE IF FirstNav(1, t) # 0 THEN NavIntent(NavOrder[FirstNav(1, t)])
    ELSE IF LooksLikeTransaction(t) THEN TransactionIntent(t, current_date)
    ELSE LaterStages(t, current_date)

\* _local_parse(text, current_date)
LocalParse(txt, current_date) ==
    LET t == Lower(txt) IN
    IF FirstNav(1, t) # 0 THEN NavIntent(NavOrder[FirstNav(1, t)])
    ELSE IF LooksLikeTransaction(t) THEN TransactionIntent(t, current_date)
    ELSE LaterStages(t, current_date)

-----------------------------------------------------------------------------
(* AIParser: the credential pool *)

\* api_key_index = (self.current_api_key_index + attempt) % len(GEMINI_API_KEYS)
KeyAt(cur, a) == (cur + a) % NumKeys

\* The same loop without its `if index in self.failed_keys: continue`.
NextAttemptNoSkip(from, cur, failed) ==
    IF from >= NumKeys THEN NumKeys ELSE from

\* The for-loop of _create_client_with_failover from iteration `from` on: the
\* first attempt whose key is not in failed_keys, NumKeys when the loop runs out.
RECURSIVE NextAttempt(_, _, _)
NextAttempt(from, cur, failed) ==
    IF from >= NumKeys THEN NumKeys
    ELSE IF KeyAt(cur, from) \in failed THEN NextAttempt(from + 1, cur, failed)
    ELSE from

\* _switch_to_next_api_key marks self.current_api_key_index as failed.
MarkedOnQuota(cur, usedKey) == cur

\* The for-loop of _switch_to_next_api_key: the first index after cur, in cyclic
\* order, that is not in failed; NoClient when there is none.
RECURSIVE SwitchSearch(_, _, _)
SwitchSearch(a, cur, failed) ==
    IF a >= NumKeys THEN NoClient
    ELSE IF KeyAt(cur, a + 1) \notin failed THEN KeyAt(cur, a + 1)
    ELSE SwitchSearch(a + 1, cur, failed)

\* The client _switch_to_next_api_key leaves in self.client when no key is left:
\* `return False` without touching self.client.
ClientAfterExhaustedSwitch(c) == c

ParserIdle ==
    /\ client = NoClient
    /\ current_api_key_index = 0
    /\ failed_keys = {}
    /\ pc = [t \in Tasks |-> "idle"]
    /\ api_key_index = [t \in Tasks |-> 0]
    /\ attempt = [t \in Tasks |-> 0]
    /\ callKey = [t \in Tasks |-> NoClient]
    /\ result = [t \in Tasks |-> "none"]
    /\ calls = [t \in Tasks |-> 0]
    /\ event = [task |-> 0, kind |-> "none", key |-> NoClient]

\* The model follows a request up to MaxCalls calls of generate_content.
MaxCalls == NumKeys + 1

\* parse_message returns (a remote intent, or the rule-based one).
Return(t, r) ==
    /\ pc' = [pc EXCEPT ![t] = "idle"]
    /\ result' = [result EXCEPT ![t] = r]
    /\ callKey' = [callKey EXCEPT ![t] = NoClient]

\* await asyncio.to_thread(self.client.models.generate_content, ...)
StartCall(t, c) ==
    /\ pc' = [pc EXCEPT ![t] = "calling"]
    /\ callKey' = [callKey EXCEPT ![t] = c]
    /\ UNCHANGED result

\* _create_client_with_failover from iteration `from`: suspend in
\* to_thread(create_client) for the next usable key, or return None, after which
\* the caller stores None in self.client and answers with _local_parse.
CreateLoop(t, from, cur, failed) ==
    LET a == NextAttempt(from, cur, failed) IN
    IF a < NumKeys
    THEN /\ pc' = [pc EXCEPT ![t] = "creating"]
         /\ attempt' = [attempt EXCEPT ![t] = a]
         /\ api_key_index' = [api_key_index EXCEPT ![t] = KeyAt(cur, a)]
         /\ UNCHANGED <<client, result, callKey>>
    ELSE /\ client' = NoClient
         /\ Return(t, "local")
         /\ UNCHANGED <<attempt, api_key_index>>

\* parse_message, from its entry to its first suspension.
ParseEnter(t) ==
    /\ pc[t] = "idle"
    /\ calls' = [calls EXCEPT ![t] = IF client = NoClient THEN 0 ELSE 1]
    /\ event' = [task |-> t, kind |-> "enter", key |-> NoClient]
    /\ UNCHANGED <<current_api_key_index, failed_keys>>
    /\ IF client = NoClient
       THEN CreateLoop(t, 0, current_api_key_index, failed_keys)
       ELSE /\ StartCall(t, client)
            /\ UNCHANGED <<client, attempt, api_key_index>>

\* to_thread(create_client) returned a client.
CreateOk(t) ==
    /\ pc[t] = "creating"
    /\ calls[t] < MaxCalls
    /\ calls' = [calls EXCEPT ![t] = @ + 1]
    /\ event' = [task |-> t, kind |-> "create_ok", key |-> api_key_index[t]]
    /\ current_api_key_index' = api_key_index[t]
    /\ client' = api_key_index[t]
    /\ StartCall(t, api_key_index[t])
    /\ UNCHANGED <<failed_keys, attempt, api_key_index>>

\* to_thread(create_client) returned None: the key is marked and the loop goes on.
CreateFail(t) ==
    /\ UNCHANGED calls
    /\ pc[t] = "creating"
    /\ event' = [task |-> t, kind |-> "create_fail", key |-> api_key_index[t]]
    /\ failed_keys' = failed_keys \cup {api_key_index[t]}
    /\ UNCHANGED current_api_key_index
    /\ CreateLoop(t, attempt[t] + 1, current_api_key_index, failed_keys')

\* generate_content answered with JSON.
CallOk(t) ==
    /\ UNCHANGED calls
    /\ pc[t] = "calling"
    /\ event' = [task |-> t, kind |-> "gen_ok", key |-> callKey[t]]
    /\ Return(t, "remote")
    /\ UNCHANGED <<client, current_api_key_index, failed_keys, attempt, api_key_index>>

\* A faulty variant: the client is dropped on an unreadable reply.
CallBadDropsClient(t) ==
    /\ UNCHANGED calls
    /\ pc[t] = "calling"
    /\ \E k \in {"gen_badjson", "gen_other"} :
          event' = [task |-> t, kind |-> k, key |-> callKey[t]]
    /\ Return(t, "local")
    /\ client' = NoClient
    /\ UNCHANGED <<current_api_key_index, failed_keys, attempt, api_key_index>>

\* json.JSONDecodeError, or an exception that is no quota error.
CallBad(t) ==
    /\ UNCHANGED calls
    /\ pc[t] = "calling"
    /\ \E k \in {"gen_badjson", "gen_other"} :
          event' = [task |-> t, kind |-> k, key |-> callKey[t]]
    /\ Return(t, "local")
    /\ UNCHANGED <<client, current_api_key_index, failed_keys, attempt, api_key_index>>

\* A quota / rate-limit error: _switch_to_next_api_key, then the retry.
CallQuota(t) ==
    /\ UNCHANGED calls
    /\ pc[t] = "calling"
    /\ event' = [task |-> t, kind |-> "gen_quota", key |-> callKey[t]]
    /\ failed_keys' = failed_keys \cup {MarkedOnQuota(current_api_key_index, callKey[t])}
    /\ LET nxt == SwitchSearch(0, current_api_key_index, failed_keys') IN
       IF nxt # NoClient
       THEN /\ current_api_key_index' = nxt
            /\ CreateLoop(t, 0, nxt, failed_keys')
       ELSE /\ client' = ClientAfterExhaustedSwitch(client)
            /\ Return(t, "local")
            /\ UNCHANGED <<current_api_key_index, attempt, api_key_index>>

ParserStep ==
    \E t \in Tasks :
        \/ ParseEnter(t)
        \/ CreateOk(t)
        \/ CreateFail(t)
        \/ CallOk(t)
        \/ CallBad(t)
        \/ CallQuota(t)


-----------------------------------------------------------------------------
(* Storage: src/database.py *)

\* Users whose chat is followed, and every user that owns accounts.
Users == {1}
Owners == {1, 2}
CardIds == 1 .. MaxCards
Amounts == 1 .. MaxAmount
\* card_number[-4:] of the number entered for the row with id c where the
\* account is entered through the bot's card flow: a number whose last four
\* digits no other account has.
LastFour(c) == Number(c)

\* The last four digits a card number can end in; None (<<>>) is the account
\* entered without a number (skip_card_number).
Endings == {NoNumber} \cup {LastFour(c) : c \in CardIds}

\* get_cards_sources(user_id): the ids of the user's rows.
get_cards_sources(cs, u) == {c \in DOMAIN cs : cs[c].user_id = u}

\* get_card_source(card_source_id) finds a row: WHERE id = ?, whoever owns it.
\* The argument is None (<<>>) or an id (<<c>>).
get_card_source(cs, id) == id # NoNumber /\ id[1] \in DOMAIN cs

\* add_card_source(user_id, name, card_number)
add_card_source(cs, seq, u, card_number) ==
    ((seq + 1) :> [user_id |-> u, balance |-> 0, card_number |-> card_number]) @@ cs

\* delete_card_source(card_source_id)
delete_card_source(cs, c) == [x \in DOMAIN cs \ {c} |-> cs[x]]

\* update_card_balance: UPDATE ... WHERE id = ? changes no row when the id is
\* not in the table; every type but 'income' subtracts.
update_card_balance(cs, c, amount, type) ==
    IF c \in DOMAIN cs
    THEN [cs EXCEPT ![c].balance = IF type = "income" THEN @ + amount ELSE @ - amount]
    ELSE cs

\* The row add_transaction inserts.
Row(u, d) ==
    [user_id |-> u, amount |-> d.amount[1], type |-> d.type,
     card_source_id |-> d.card_source_id, date |-> d.date]

\* add_transaction: INSERT, then update_card_balance when card_source_id is
\* not None, then commit.
add_transaction(u, d) ==
    /\ transactions' = Append(transactions, Row(u, d))
    /\ cards_sources' =
          IF d.card_source_id # NoNumber
          THEN update_card_balance(cards_sources, d.card_source_id[1], d.amount[1], d.type)
          ELSE cards_sources
    /\ UNCHANGED <<card_seq, categories>>

\* clear_user_data and clear_financial_data: the balances of the user's own
\* accounts are set to 0 and the user's own transactions are deleted (the
\* plans clear_user_data deletes as well are not part of the model).
clear_financial_data(u) ==
    /\ cards_sources' = [c \in DOMAIN cards_sources |->
                            IF cards_sources[c].user_id = u
                            THEN [cards_sources[c] EXCEPT !.balance = 0]
                            ELSE cards_sources[c]]
    /\ transactions' = SelectSeq(transactions, LAMBDA row : row.user_id # u)
    /\ UNCHANGED <<card_seq, categories>>

clear_user_data(u) == clear_financial_data(u)

-----------------------------------------------------------------------------
(* The FSM session: handlers of src/main.py *)

\* TransactionStates, None, and the states of CardSourceStates taken as one.
TransactionStates ==
    {"waiting_for_amount", "waiting_for_card_source", "waiting_for_date",
     "waiting_for_description", "waiting_for_type", "waiting_for_category",
     "waiting_for_custom_category"}
FsmStates == TransactionStates \cup {"none", "card_flow"}

\* The states whose callback handler is registered without a data filter, ahead
\* of cancel_transaction, start_custom_category_input and confirm_transaction:
\* in these states every callback goes to the state's handler.
CallbackCatching ==
    {"waiting_for_card_source", "waiting_for_date", "waiting_for_type",
     "waiting_for_category"}

\* The FSM data after state.clear(): no key.  card_source_id None and a missing
\* card_source_id key are both <<>>; every read of data['card_source_id'] comes
\* after a read of data['currency'] or the 'amount' test, which fail first.
EmptyData ==
    [amount |-> NoNumber, type |-> Absent, category |-> Absent,
     card_source_id |-> NoNumber, date |-> Absent, description |-> Absent]

\* 'amount' in data; amount and currency are always written together.
HasAmount(d) == d.amount # NoNumber

\* Python truth of a stored text value.
Truthy(v) == v \notin {Absent, "None", ""}

\* db.get_card_source(data['card_source_id']) is None.
CardGone(d) == ~get_card_source(cards_sources, d.card_source_id)

\* The update handled last for a user: a cancel (with the FSM state it arrived
\* in), a text whose intent lacks the amount, a text that seeded a draft, an
\* input answered with the error message of its state (invalid_amount,
\* invalid_date), process_amount ending in an exception (raised), a text intent
\* that was refused, not understood or dropped (see Route), or anything else.
\* A seed that found the data of an earlier draft arrived "in" a draft.
Other == [kind |-> "other", in |-> "-"]
Handled(u, kind) ==
    last' = [last EXCEPT ![u] =
                IF kind = "other" THEN Other
                ELSE IF kind = "seed" /\ data[u] # EmptyData
                THEN [kind |-> kind, in |-> "draft"]
                ELSE [kind |-> kind, in |-> fsm[u]]]

\* A faulty variant: one storage record shared by every user.
ClearEverySession(u) ==
    /\ fsm' = [o \in DOMAIN fsm |-> "none"]
    /\ data' = [o \in DOMAIN data |-> EmptyData]
    /\ entered' = [o \in DOMAIN entered |-> "none"]

\* await state.clear(): MemoryStorage keeps one record per (chat, user).
Clear(u) ==
    /\ fsm' = [fsm EXCEPT ![u] = "none"]
    /\ data' = [data EXCEPT ![u] = EmptyData]
    /\ entered' = [entered EXCEPT ![u] = "none"]

NoWrite == UNCHANGED <<cards_sources, card_seq, transactions, categories>>

\* No write to the tables of accounts and transactions.
NoAccountWrite == UNCHANGED <<cards_sources, card_seq, transactions>>

\* The row add_category inserts; a None type is stored as NULL.
CategoryRow(u, name, type) == [user_id |-> u, name |-> name, type |-> type]

\* add_category: INSERT INTO categories, commit.
add_category(cats, u, name, type) == cats (+) SetToBag({CategoryRow(u, name, type)})

\* get_categories(user_id, type): the names of the user's rows of that type, of
\* all the user's rows when type is None.
get_categories(cats, u, type) ==
    {x.name : x \in {y \in BagToSet(cats) :
                        y.user_id = u /\ (Truthy(type) => y.type = type)}}

\* The default names process_type and handle_text_ai insert: the expense list
\* for 'expense', the income list for any other type.
DefaultCategories(type) ==
    IF type = "expense"
    THEN {"food", "transport", "rent", "entertainment", "other"}
    ELSE {"salary", "bonus", "investment", "other"}

\* if not categories: for cat in categories: db.add_category(user, cat, t_type)
add_default_categories(cats, u, type) ==
    IF get_categories(cats, u, type) # {}
    THEN cats
    ELSE cats (+) SetToBag({CategoryRow(u, name, type) : name \in DefaultCategories(type)})

\* The table of users who have been through both type menus (the default
\* names of each type) and have entered the name "custom" under each type.
StockedCategories(users) ==
    SetToBag(UNION {{CategoryRow(u, name, type) :
                        u \in users, name \in DefaultCategories(type) \cup {"custom"}} :
                    type \in {"expense", "income"}})

\* process_custom_category: the name is inserted unless get_categories
\* returns it.
create_category_if_needed(cats, u, name, type) ==
    IF name \notin get_categories(cats, u, type)
    THEN add_category(cats, u, name, type)
    ELSE cats

\* The handler raised: what it changed before is kept, nothing is shown.
Raised(u, kind) ==
    /\ Handled(u, kind)
    /\ UNCHANGED <<fsm, entered>>

\* Length of the literals of fa_to_en: fa_nums holds 20 characters in the
\* source file, en_nums the ten digits.
fa_nums_len == 20
en_nums_len == 10
\* str.maketrans(fa_nums, en_nums) raises ValueError unless the lengths agree.
fa_to_en_raises == fa_nums_len # en_nums_len

\* start_add_transaction on a callback of one of the bot's own messages.
start_add_transaction(u) ==
    /\ fsm' = [fsm EXCEPT ![u] = "waiting_for_amount"]
    /\ entered' = [entered EXCEPT ![u] = "waiting_for_amount"]
    /\ Handled(u, "other")
    /\ NoWrite
    /\ UNCHANGED <<data, inflight>>

\* process_amount: nums is what re.findall finds, <<>> when it finds nothing.
process_amount(u, nums) ==
    /\ fsm[u] = "waiting_for_amount"
    /\ NoWrite
    /\ UNCHANGED inflight
    /\ IF fa_to_en_raises
       THEN Raised(u, "raised") /\ UNCHANGED data
       ELSE IF nums = NoNumber
       THEN Handled(u, "invalid_amount") /\ UNCHANGED <<fsm, data, entered>>
       ELSE /\ data' = [data EXCEPT ![u].amount = nums]
            /\ UNCHANGED entered
            /\ IF get_cards_sources(cards_sources, u) = {}
               THEN Handled(u, "other") /\ UNCHANGED fsm
               ELSE /\ Handled(u, "other")
                    /\ fsm' = [fsm EXCEPT ![u] = "waiting_for_card_source"]

\* process_card_source on the callback card_<c>.
process_card_source(u, c) ==
    /\ fsm[u] = "waiting_for_card_source"
    /\ NoWrite
    /\ UNCHANGED inflight
    /\ IF ~get_card_source(cards_sources, Number(c))
       THEN Clear(u) /\ Handled(u, "other")
       ELSE /\ data' = [data EXCEPT ![u].card_source_id = Number(c)]
            /\ IF ~HasAmount(data[u])
               THEN Raised(u, "other")
               ELSE /\ Handled(u, "other")
                    /\ fsm' = [fsm EXCEPT ![u] = "waiting_for_date"]
                    /\ UNCHANGED entered

\* process_date: the callback date_today, another callback (an alert), or a text
\* the date pattern of the user's calendar refuses (the format message).
process_date(u, ev) ==
    /\ fsm[u] = "waiting_for_date"
    /\ NoWrite
    /\ UNCHANGED inflight
    /\ IF ev # "date_today"
       THEN /\ Handled(u, IF ev = "bad_text" THEN "invalid_date" ELSE "other")
            /\ UNCHANGED <<fsm, data, entered>>
       ELSE /\ data' = [data EXCEPT ![u].date = Today]
            /\ IF ~HasAmount(data[u]) \/ CardGone(data[u])
               THEN Raised(u, "other")
               ELSE /\ Handled(u, "other")
                    /\ fsm' = [fsm EXCEPT ![u] = "waiting_for_description"]
                    /\ UNCHANGED entered

\* skip_description (description None) and process_description (the text).
process_description_finish(u, description) ==
    /\ fsm[u] = "waiting_for_description"
    /\ NoWrite
    /\ UNCHANGED inflight
    /\ data' = [data EXCEPT ![u].description = description]
    /\ IF ~HasAmount(data[u]) \/ CardGone(data[u]) \/ data[u].date = Absent
       THEN Raised(u, "other")
       ELSE /\ Handled(u, "other")
            /\ fsm' = [fsm EXCEPT ![u] = "waiting_for_type"]
            /\ UNCHANGED entered

\* process_type on a callback that is not cancel_transaction: every data but
\* type_expense selects income.
process_type(u, cb) ==
    /\ fsm[u] = "waiting_for_type"
    /\ NoAccountWrite
    /\ categories' =
          IF ~HasAmount(data[u]) THEN categories
          ELSE add_default_categories(categories, u,
                                      IF cb = "type_expense" THEN "expense" ELSE "income")
    /\ UNCHANGED inflight
    /\ data' = [data EXCEPT ![u].type = IF cb = "type_expense" THEN "expense" ELSE "income"]
    /\ IF ~HasAmount(data[u]) \/ CardGone(data[u]) \/ data[u].date = Absent
       THEN Raised(u, "other")
       ELSE /\ Handled(u, "other")
            /\ fsm' = [fsm EXCEPT ![u] = "waiting_for_category"]
            /\ UNCHANGED entered

\* process_category on a callback that is not cancel_transaction.
process_category(u, cb) ==
    /\ fsm[u] = "waiting_for_category"
    /\ NoWrite
    /\ UNCHANGED inflight
    /\ IF cb # "cat_food"
       THEN Handled(u, "other") /\ UNCHANGED <<fsm, data, entered>>
       ELSE /\ data' = [data EXCEPT ![u].category = "food"]
            /\ IF ~HasAmount(data[u]) \/ data[u].type = Absent \/ CardGone(data[u])
                  \/ data[u].date = Absent
               THEN Raised(u, "other")
               ELSE /\ Handled(u, "other")
                    /\ fsm' = [fsm EXCEPT ![u] = "none"]
                    /\ UNCHANGED entered

\* A faulty variant: the FSM state is reset and the data is kept.
DataKept(d) == d

\* What cancel_transaction leaves of the FSM data.
DataAfterCancel(d) == EmptyData

\* cancel_transaction, called by the dispatcher or by a state's handler.
cancel_transaction(u) ==
    /\ fsm' = [fsm EXCEPT ![u] = "none"]
    /\ data' = [data EXCEPT ![u] = DataAfterCancel(data[u])]
    /\ entered' = [entered EXCEPT ![u] = "none"]
    /\ Handled(u, "cancel")
    /\ NoWrite
    /\ UNCHANGED inflight

\* start_custom_category_input on the callback type_custom_category.
start_custom_category_input(u) ==
    /\ fsm[u] \notin CallbackCatching
    /\ fsm' = [fsm EXCEPT ![u] = "waiting_for_custom_category"]
    /\ Handled(u, "other")
    /\ NoWrite
    /\ UNCHANGED <<data, inflight, entered>>

\* t_type = data.get('type', 'expense')
current_type(d) == IF d.type = Absent THEN "expense" ELSE d.type

\* process_custom_category on a non-empty name.
process_custom_category(u, category_name) ==
    /\ fsm[u] = "waiting_for_custom_category"
    /\ NoAccountWrite
    /\ categories' = create_category_if_needed(categories, u, category_name,
                                               current_type(data[u]))
    /\ UNCHANGED inflight
    /\ data' = [data EXCEPT ![u].category = category_name]
    /\ IF ~HasAmount(data[u]) \/ CardGone(data[u]) \/ data[u].date = Absent
       THEN Raised(u, "other")
       ELSE /\ Handled(u, "other")
            /\ fsm' = [fsm EXCEPT ![u] = "none"]
            /\ UNCHANGED entered


\* Remove the i-th element of a sequence.
Without(q, i) == SubSeq(q, 1, i - 1) \o SubSeq(q, i + 1, Len(q))

\* confirm_transaction, up to its suspension in bot.delete_message: without an
\* amount it cancels; otherwise it writes and keeps its local copy of the data.
\* The model stops writing at maxRows rows.
confirm_transaction(u, maxRows) ==
    /\ fsm[u] \notin CallbackCatching
    /\ IF ~HasAmount(data[u])
       THEN /\ Clear(u)
            /\ Handled(u, "other")
            /\ NoWrite
            /\ UNCHANGED inflight
       ELSE IF Absent \in {data[u].type, data[u].category, data[u].date}
       THEN /\ Raised(u, "other")
            /\ NoWrite
            /\ UNCHANGED <<data, inflight>>
       ELSE /\ Len(transactions) < maxRows
            /\ add_transaction(u, data[u])
            /\ inflight' = [inflight EXCEPT ![u] = Append(@, data[u].card_source_id)]
            /\ Handled(u, "other")
            /\ UNCHANGED <<fsm, data, entered>>

\* confirm_transaction after the suspension: card_source[3] raises when the
\* account is gone, otherwise the saved message and state.clear().
confirm_transaction_resume(u, i) ==
    /\ i \in 1 .. Len(inflight[u])
    /\ inflight' = [inflight EXCEPT ![u] = Without(@, i)]
    /\ NoWrite
    /\ IF ~get_card_source(cards_sources, inflight[u][i])
       THEN Raised(u, "other") /\ UNCHANGED data
       ELSE Clear(u) /\ Handled(u, "other")

\* The (section, action) pairs _local_parse returns besides finance /
\* add_transaction; "none" is a key the dict does not hold. The pairs named in
\* the prompt of parse_message are among them.
IntentPairs ==
    {<<"main", "menu">>, <<"finance", "main">>, <<"planning", "main">>,
     <<"settings", "change_language">>, <<"help", "show">>, <<"admin", "users">>,
     <<"finance", "monthly_report">>, <<"finance", "report_range">>,
     <<"finance", "add_card_source">>, <<"finance", "delete_card_source">>,
     <<"finance", "manage_cards_sources">>, <<"finance", "add_category">>,
     <<"finance", "delete_category">>, <<"finance", "categories">>,
     <<"settings", "clear_data">>, <<"planning", "plans_today">>,
     <<"planning", "plans_week">>, <<"planning", "mark_done">>,
     <<"planning", "delete_plan">>, <<"planning", "add_plan">>,
     <<"settings", "set_currency">>, <<"settings", "set_calendar">>,
     <<"admin", "stats">>, <<"none", "fallback_to_buttons">>}

\* A faulty variant: the admin branch without the is_admin test.
RouteAdminUnchecked(section, action, admin) ==
    IF section = "admin"
    THEN (IF action \in {"users", "stats"} THEN "other" ELSE "dropped")
    ELSE "not_understood"

\* The if / elif chain of handle_text_ai on section and action: "other" when a
\* branch owns the pair and answers, "access_denied" for the admin section of a
\* user who is no admin, "not_understood" for the final else, "dropped" when
\* the section matches and no branch of its inner chain does (the chains have
\* no else: nothing is sent).
Route(section, action, admin) ==
    IF section = "finance"
    THEN (IF action \in {"main", "add_transaction", "monthly_report", "categories"}
          THEN "other" ELSE "dropped")
    ELSE IF section = "planning"
    THEN (IF action \in {"main", "add_plan", "plans_today", "plans_week"}
          THEN "other" ELSE "dropped")
    ELSE IF section = "settings"
    THEN (IF action \in {"change_language", "clear_data"} THEN "other" ELSE "dropped")
    ELSE IF section = "help"
    THEN (IF action = "show" THEN "other" ELSE "dropped")
    ELSE IF section = "admin"
    THEN (IF ~admin THEN "access_denied"
          ELSE IF action \in {"users", "stats"} THEN "other" ELSE "dropped")
    ELSE IF action = "main_menu" \/ (section = "main" /\ action = "menu") THEN "other"
    ELSE "not_understood"

\* The date texts an intent can carry: Gregorian and Jalali, with dashes and
\* with slashes (the regex of _local_parse accepts both separators).
DateTexts == {"2025-01-01", "2025/01/01", "1404/10/01", "1404-10-01"}

\* The separator parse_date_input splits on: '-' is tested first.
Sep(s) == IF s \in {"2025/01/01", "1404/10/01"} THEN "/" ELSE "-"

\* year, month, day = map(int, date_input.split(sep))
Ymd(s) ==
    CASE s \in {"2025-01-01", "2025/01/01"} -> <<2025, 1, 1>>
      [] s \in {"1404/10/01", "1404-10-01"} -> <<1404, 10, 1>>

\* f"{y:04d}-{m:02d}-{d:02d}"
Iso(ymd) ==
    CASE ymd = <<2025, 1, 1>> -> "2025-01-01"
      [] ymd = <<1404, 10, 1>> -> "1404-10-01"
      [] ymd = <<2025, 12, 20>> -> "2025-12-20"

\* jalali_to_gregorian(jy, jm, jd), with the arithmetic of the source.
jalali_to_gregorian(j) ==
    LET jy == j[1] + 1595
        d0 == -355668 + (365 * jy) + ((jy \div 33) * 8) + (((jy % 33) + 3) \div 4) + j[3]
        d1 == IF j[2] < 7 THEN d0 + (j[2] - 1) * 31 ELSE d0 + ((j[2] - 7) * 30) + 186
        gy1 == 400 * (d1 \div 146097)
        d2 == d1 % 146097
        big == d2 > 36524
        d3 == IF big THEN d2 - 1 ELSE d2
        gy2 == IF big THEN gy1 + 100 * (d3 \div 36524) ELSE gy1
        d4 == IF big THEN d3 % 36524 ELSE d3
        d5 == IF big /\ d4 >= 365 THEN d4 + 1 ELSE d4
        gy3 == gy2 + 4 * (d5 \div 1461)
        d6 == d5 % 1461
        gy4 == IF d6 > 365 THEN gy3 + (d6 - 1) \div 365 ELSE gy3
        d7 == IF d6 > 365 THEN (d6 - 1) % 365 ELSE d6
    IN  IF d7 < 186
        THEN <<gy4, 1 + (d7 \div 31), 1 + (d7 % 31)>>
        ELSE <<gy4, 7 + ((d7 - 186) \div 30), 1 + ((d7 - 186) % 30)>>

\* parse_date_input(date_input, calendar_format); Today is date.today() in
\* the form %Y-%m-%d, which the Gregorian branch returns as it is.
parse_date_input(s, calendar_format) ==
    IF s = Today THEN Today
    ELSE IF calendar_format = "jalali" THEN Iso(jalali_to_gregorian(Ymd(s)))
    ELSE Iso(Ymd(s))

\* "Normalize date for storage" in handle_text_ai: Jalali when the text has a
\* slash and starts with 13 or 14.
stored_date(s) ==
    IF s # Today /\ Sep(s) = "/" /\ Ymd(s)[1] \div 100 \in {13, 14}
    THEN parse_date_input(s, "jalali")
    ELSE parse_date_input(s, "gregorian")

\* What parse_message can return to handle_text_ai: an add_transaction dict
\* without a date, or any other destination. Of a dict whose amount is missing
\* or 0 handle_text_ai reads no other field: those dicts vary in the type only.
Results ==
    [section : {"finance"}, action : {"add_transaction"}, date : {Absent},
     amount : {Number(n) : n \in Amounts},
     type : {Absent, "income", "expense"},
     category : {Absent, "food"},
     note : {"", "lunch"},
     card_hint : {NoNumber} \cup {LastFour(c) : c \in CardIds}]
    \cup
    [section : {"finance"}, action : {"add_transaction"}, date : {Absent},
     amount : {NoNumber, Number(0)},
     type : {Absent, "expense"},
     category : {Absent}, note : {""}, card_hint : {NoNumber}]
    \cup
    {[section |-> p[1], action |-> p[2], date |-> Absent, amount |-> NoNumber,
      type |-> Absent, category |-> Absent, note |-> "",
      card_hint |-> NoNumber] : p \in IntentPairs}

\* add_transaction dicts that carry a date, with the types handle_text_ai
\* keeps (income is left to Results).
DatedResults ==
    [section : {"finance"}, action : {"add_transaction"}, date : DateTexts,
     amount : {Number(n) : n \in Amounts},
     type : {Absent, "expense", "transfer"},
     category : {Absent, "food"},
     note : {"", "lunch"},
     card_hint : {NoNumber} \cup {LastFour(c) : c \in CardIds}]

\* A faulty variant: the only account ending in the hint, whoever owns it.
ResolveAmongAll(cs, u, hint) ==
    LET matches == {c \in DOMAIN cs :
                        cs[c].card_number # NoNumber /\ cs[c].card_number = hint}
    IN  IF hint # NoNumber /\ Cardinality(matches) = 1
        THEN Number(CHOOSE c \in matches : TRUE)
        ELSE NoNumber

\* card_source_id resolved from card_hint: the user's only card ending in it.
Resolve(cs, u, hint) ==
    LET matches == {c \in get_cards_sources(cs, u) :
                        cs[c].card_number # NoNumber /\ cs[c].card_number = hint}
    IN  IF hint # NoNumber /\ Cardinality(matches) = 1
        THEN Number(CHOOSE c \in matches : TRUE)
        ELSE NoNumber

\* await state.update_data(**kw): the keys of kw are written, the others kept.
update_data(d, kw) ==
    [k \in DOMAIN d |-> IF k \in DOMAIN kw THEN kw[k] ELSE d[k]]

\* A faulty variant: only the fields the intent carries are passed on.
SeedDataParsedOnly(cs, u, r) ==
    [k \in {"amount", "date", "description"}
           \cup (IF r.type \in {"income", "expense", "transfer"} THEN {"type"} ELSE {})
           \cup (IF r.category # Absent THEN {"category"} ELSE {})
           \cup (IF r.card_hint # NoNumber THEN {"card_source_id"} ELSE {}) |->
        CASE k = "amount" -> r.amount
          [] k = "date" -> IF r.date = Absent THEN Today ELSE r.date
          [] k = "description" -> r.note
          [] k = "type" -> r.type
          [] k = "category" -> r.category
          [] k = "card_source_id" ->
                LET matches == {c \in get_cards_sources(cs, u) :
                                   cs[c].card_number = r.card_hint}
                IN  IF Cardinality(matches) = 1
                    THEN Number(CHOOSE c \in matches : TRUE) ELSE NoNumber]

\* The keyword arguments of state.update_data(...) in handle_text_ai.
SeedData(cs, u, r) ==
    [amount |-> r.amount,
     type |-> IF r.type \in {"income", "expense", "transfer"} THEN r.type ELSE "None",
     category |-> IF r.category = Absent THEN "None" ELSE r.category,
     card_source_id |-> Resolve(cs, u, r.card_hint),
     date |-> IF r.date = Absent THEN Today ELSE r.date,
     description |-> r.note]

\* A faulty variant: the type is asked again although the intent carries it.
NextMissingAsksType(d, hasCards) ==
    IF ~Truthy(d.category) THEN "waiting_for_type"
    ELSE IF d.card_source_id = NoNumber
    THEN (IF hasCards THEN "waiting_for_card_source" ELSE "no_card_source")
    ELSE "save"

\* "Decide next missing field": the state handle_text_ai asks in, "no_card_source"
\* when the user has no account to offer, "save" when nothing is missing.
NextMissing(d, hasCards) ==
    IF d.type = "None" THEN "waiting_for_type"
    ELSE IF ~Truthy(d.category) THEN "waiting_for_category"
    ELSE IF d.card_source_id = NoNumber
    THEN (IF hasCards THEN "waiting_for_card_source" ELSE "no_card_source")
    ELSE IF ~Truthy(d.description) THEN "waiting_for_description"
    ELSE "save"

\* message.edit_text on the user's own message, inside start_add_transaction.
EditOutcomes == {"edited", "bad_request"}

\* The branch of handle_text_ai that edits: only the missing amount does.
AmountMissing(r) == r.amount = NoNumber \/ r.amount[1] <= 0
EditOutcomesFor(r) ==
    IF r.action = "add_transaction" /\ AmountMissing(r) THEN EditOutcomes ELSE {"edited"}

\* handle_text_ai (StateFilter(None)) on the result r of parse_message, for a
\* user for whom is_admin returns admin.
handle_text_ai_by(u, r, edit, admin) ==
    /\ fsm[u] = "none"
    /\ UNCHANGED inflight
    /\ IF ~(r.section = "finance" /\ r.action = "add_transaction")
       THEN /\ Handled(u, Route(r.section, r.action, admin))
            /\ NoWrite
            /\ UNCHANGED <<fsm, data, entered>>
       ELSE IF AmountMissing(r)
       THEN \* start_add_transaction with a CallbackQuery made of the user's message
            /\ NoWrite
            /\ UNCHANGED data
            /\ IF edit = "bad_request"
               THEN Raised(u, "amount_missing")
               ELSE /\ fsm' = [fsm EXCEPT ![u] = "waiting_for_amount"]
                    /\ entered' = [entered EXCEPT ![u] = "waiting_for_amount"]
                    /\ Handled(u, "amount_missing")
       ELSE LET d == update_data(data[u], SeedData(cards_sources, u, r))
                next == NextMissing(d, get_cards_sources(cards_sources, u) # {})
            IN  IF next = "save"
                THEN /\ Len(transactions) < MaxTx
                     /\ add_transaction(u, [d EXCEPT !.date = stored_date(d.date)])
                     /\ Clear(u)
                     /\ Handled(u, "seed")
                ELSE /\ NoAccountWrite
                     /\ categories' =
                           IF next = "waiting_for_category"
                           THEN add_default_categories(categories, u, d.type)
                           ELSE categories
                     /\ data' = [data EXCEPT ![u] = d]
                     /\ Handled(u, "seed")
                     /\ IF next = "no_card_source"
                        THEN UNCHANGED fsm /\ entered' = [entered EXCEPT ![u] = "none"]
                        ELSE /\ fsm' = [fsm EXCEPT ![u] = next]
                             /\ entered' = [entered EXCEPT ![u] = next]

\* handle_text_ai where ADMIN_IDS is whatever the environment of the process
\* holds: only the admin section reads it.
handle_text_ai(u, r, edit) ==
    IF r.section = "admin"
    THEN \E admin \in BOOLEAN : handle_text_ai_by(u, r, edit, admin)
    ELSE handle_text_ai_by(u, r, edit, FALSE)

\* finance_main and manage_cards_sources_menu: state.clear() and a menu.
finance_main(u) ==
    /\ Clear(u)
    /\ Handled(u, "other")
    /\ NoWrite
    /\ UNCHANGED inflight

manage_cards_sources_menu(u) ==
    /\ Clear(u)
    /\ Handled(u, "other")
    /\ NoWrite
    /\ UNCHANGED inflight

\* start_add_card_source: the FSM leaves the transaction states, the data stays.
start_add_card_source(u) ==
    /\ fsm' = [fsm EXCEPT ![u] = "card_flow"]
    /\ entered' = [entered EXCEPT ![u] = "none"]
    /\ Handled(u, "other")
    /\ NoWrite
    /\ UNCHANGED <<data, inflight>>

\* process_source_name and process_card_number_finish with a name and a number
\* the user has not registered yet.
process_card_number_finish(u) ==
    /\ fsm[u] = "card_flow"
    /\ card_seq < MaxCards
    /\ cards_sources' = add_card_source(cards_sources, card_seq, u, LastFour(card_seq + 1))
    /\ card_seq' = card_seq + 1
    /\ Clear(u)
    /\ Handled(u, "other")
    /\ UNCHANGED <<transactions, categories, inflight>>

\* The same flow run by a user whose chat is not followed.
add_card_source_elsewhere(o) ==
    /\ card_seq < MaxCards
    /\ cards_sources' = add_card_source(cards_sources, card_seq, o, LastFour(card_seq + 1))
    /\ card_seq' = card_seq + 1
    /\ UNCHANGED <<fsm, data, inflight, transactions, categories, last, entered>>

\* execute_delete_card on the callback execute_delete_card_<c>.
execute_delete_card(u, c) ==
    /\ UNCHANGED <<fsm, data, inflight, entered, card_seq, transactions, categories>>
    /\ IF c \in DOMAIN cards_sources
       THEN /\ cards_sources' = delete_card_source(cards_sources, c)
            /\ Handled(u, "other")
       ELSE /\ UNCHANGED cards_sources
            /\ Handled(u, "other")

\* One update handled.  quick_transaction_start is left out: no keyboard of the
\* bot carries quick_expense or quick_income.
BotStep ==
    \/ \E u \in Users :
        \/ start_add_transaction(u)
        \/ \E nums \in {NoNumber} \cup {Number(n) : n \in 0 .. MaxAmount} : process_amount(u, nums)
        \/ \E c \in CardIds : process_card_source(u, c)
        \/ \E ev \in {"date_today", "other_callback", "bad_text"} : process_date(u, ev)
        \/ \E description \in {"", "lunch"} : process_description_finish(u, description)
        \/ \E cb \in {"type_expense", "type_income", "confirm_transaction"} : process_type(u, cb)
        \/ \E cb \in {"cat_food", "type_custom_category"} : process_category(u, cb)
        \/ cancel_transaction(u)
        \/ start_custom_category_input(u)
        \/ process_custom_category(u, "custom")
        \/ confirm_transaction(u, MaxTx)
        \/ \E i \in 1 .. MaxTx : confirm_transaction_resume(u, i)
        \/ /\ fsm[u] = "none"
           /\ \E r \in Results : \E edit \in EditOutcomesFor(r) : handle_text_ai(u, r, edit)
        \/ finance_main(u)
        \/ manage_cards_sources_menu(u)
        \/ start_add_card_source(u)
        \/ process_card_number_finish(u)
        \/ \E c \in CardIds : execute_delete_card(u, c)
    \/ \E o \in Owners \ Users : add_card_source_elsewhere(o)

-----------------------------------------------------------------------------
(* Specifications *)

LocalIdle ==
    /\ text = <<>>
    /\ intent = NoIntent

\* No account, no transaction and no session; the category table as earlier
\* sessions left it.
BotIdle ==
    /\ fsm = [u \in Owners |-> "none"]
    /\ data = [u \in Owners |-> EmptyData]
    /\ inflight = [u \in Owners |-> <<>>]
    /\ cards_sources = <<>>
    /\ card_seq = 0
    /\ transactions = <<>>
    /\ categories = StockedCategories(Users)
    /\ last = [u \in Owners |-> Other]
    /\ entered = [u \in Owners |-> "none"]

\* main() in its first attempt, waiting while dp.start_polling serves updates.
Polling ==
    /\ main_pc = "waiting"
    /\ main_attempt = 0
    /\ stop_event = FALSE
    /\ polling_task = "running"
    /\ started = 1

InitParser == ParserIdle /\ LocalIdle /\ BotIdle /\ Polling

NextParser == ParserStep /\ UNCHANGED <<localVars, botVars, mainVars>>

SpecParser == InitParser /\ [][NextParser]_vars

InitLocal ==
    /\ text \in Texts \cup SampleTexts \cup RangeTexts
    /\ intent = NoIntent
    /\ ParserIdle
    /\ Polling
    /\ BotIdle

\* One call of _local_parse on the text.
LocalParseCall ==
    /\ intent = NoIntent
    /\ intent' = LocalParse(text, Today)
    /\ UNCHANGED text

NextLocal == LocalParseCall /\ UNCHANGED <<parserVars, botVars, mainVars>>

SpecLocal == InitLocal /\ [][NextLocal]_vars

\* One text, parsed again and again while the requests of one task change the
\* credential pool: by a direct call of _local_parse, and by every return of
\* parse_message that answers with self._local_parse(text, current_date).
InitPure ==
    /\ text \in TextsUpTo(1) \cup SampleTexts \cup RangeTexts
    /\ intent = NoIntent
    /\ ParserIdle
    /\ Polling
    /\ BotIdle

LocalParseAgain ==
    /\ intent' = LocalParse(text, Today)
    /\ UNCHANGED <<text, parserVars>>

ParseMessageStep ==
    /\ \/ ParseEnter(1) \/ CreateOk(1) \/ CreateFail(1)
       \/ CallOk(1) \/ CallBad(1) \/ CallQuota(1)
    /\ intent' = IF pc'[1] = "idle" /\ result'[1] = "local"
                 THEN LocalParse(text, Today) ELSE intent
    /\ UNCHANGED text

NextPure == (LocalParseAgain \/ ParseMessageStep) /\ UNCHANGED <<botVars, mainVars>>

SpecPure == InitPure /\ [][NextPure]_vars

Init == BotIdle /\ ParserIdle /\ LocalIdle /\ Polling

\* The rows the model follows in the tables of a database that is called
\* directly, and the largest balance it lets a call produce.
MaxRows == 2

\* Calls of the Database methods by any user and with any account id, None
\* and the ids of no row included, from the empty tables.
DbStep ==
    \/ \E u \in Owners, n \in Amounts, type \in {"income", "expense"},
          id \in {NoNumber} \cup {Number(c) : c \in CardIds} :
          /\ Len(transactions) < MaxRows
          /\ \A c \in DOMAIN cards_sources :
                 id = Number(c) => /\ cards_sources[c].balance < MaxRows
                                   /\ cards_sources[c].balance > 0 - MaxRows
          /\ add_transaction(u, [EmptyData EXCEPT !.amount = Number(n), !.type = type,
                                                  !.card_source_id = id, !.date = Today])
          /\ UNCHANGED <<fsm, data, inflight, last, entered>>
    \/ \E u \in Owners :
          /\ clear_user_data(u) \/ clear_financial_data(u)
          /\ UNCHANGED <<fsm, data, inflight, last, entered>>
    \/ \E u \in Owners : add_card_source_elsewhere(u)
    \/ \E c \in CardIds :
          /\ cards_sources' = delete_card_source(cards_sources, c)
          /\ UNCHANGED <<fsm, data, inflight, last, entered, card_seq, transactions,
                         categories>>

NextDb == DbStep /\ UNCHANGED <<parserVars, localVars, mainVars>>

SpecDb == Init /\ [][NextDb]_vars

\* ADMIN_IDS of a deployment in which one of the two users is an admin.
ADMIN_IDS == {2}

is_admin(user_id) == user_id \in ADMIN_IDS

\* The Database reads of the admin branch of handle_text_ai: they follow the
\* is_admin test and its return.
admin_reads(action, admin) ==
    IF ~admin THEN {}
    ELSE IF action = "users" THEN {"get_all_users"}
    ELSE IF action = "stats" THEN {"get_user_stats"}
    ELSE {}

\* The results that are no transaction.
OtherResults ==
    {[section |-> p[1], action |-> p[2], date |-> Absent, amount |-> NoNumber,
      type |-> Absent, category |-> Absent, note |-> "",
      card_hint |-> NoNumber] : p \in IntentPairs \cup {<<"admin", "panel">>}}

\* Texts of an admin and of a user who is none, between their sessions.
AdminStep ==
    \/ \E u \in Owners, r \in OtherResults : handle_text_ai_by(u, r, "edited", is_admin(u))
    \/ \E u \in Owners : start_add_transaction(u)
    \/ \E u \in Owners : cancel_transaction(u)
    \/ \E o \in Owners : add_card_source_elsewhere(o)

NextAdmin == AdminStep /\ UNCHANGED <<parserVars, localVars, mainVars>>

SpecAdmin == Init /\ [][NextAdmin]_vars

-----------------------------------------------------------------------------
(* main(): the preflight and the polling loop *)

\* The defaults of os.getenv in main().
BOT_START_MAX_RETRIES == 5
BOT_PREFLIGHT_RETRIES == 3

\* How the coroutine dp.start_polling can end by itself: by returning, or with
\* an exception whose text holds one of the network keywords, or with another.
PollingOutcomes == {"finished", "network_error", "other_error"}

\* is_network_error of the exception the try block raised.
is_network_error(e) == e = "network_error"

\* main() at its first statement.
MainStarted ==
    /\ main_pc = "preflight"
    /\ main_attempt = 0
    /\ stop_event = FALSE
    /\ polling_task = "none"
    /\ started = 0

InitMain == BotIdle /\ ParserIdle /\ LocalIdle /\ MainStarted

\* One round of the preflight loop: bot.me() answers or raises; after the last
\* round, or after an answer, main() goes on to the polling loop.
Preflight(ok) ==
    /\ main_pc = "preflight"
    /\ IF ok \/ main_attempt = BOT_PREFLIGHT_RETRIES - 1
       THEN main_pc' = "loop" /\ main_attempt' = 0
       ELSE main_pc' = "preflight" /\ main_attempt' = main_attempt + 1
    /\ UNCHANGED <<stop_event, polling_task, started>>

\* The first statements of the try block: the polling task is created and
\* main() waits for it or for the stop event.
StartPolling ==
    /\ main_pc = "loop"
    /\ main_attempt < BOT_START_MAX_RETRIES
    /\ polling_task' = "running"
    /\ started' = started + 1
    /\ main_pc' = "waiting"
    /\ UNCHANGED <<main_attempt, stop_event>>

\* dp.start_polling ends by itself; an exception stays in the task.
PollingEnds(outcome) ==
    /\ polling_task = "running"
    /\ polling_task' = outcome
    /\ UNCHANGED <<main_pc, main_attempt, stop_event, started>>

\* main._on_signal, registered after the preflight: stop_event.set().
on_signal ==
    /\ main_pc \in {"loop", "waiting", "except"}
    /\ stop_event' = TRUE
    /\ UNCHANGED <<main_pc, main_attempt, polling_task, started>>

\* asyncio.wait(..., return_when=FIRST_COMPLETED) returns, without raising what
\* a task raised. With the stop event set the polling task is cancelled and
\* awaited: the await raises the exception of a task that had failed before.
\* Without it main() leaves the loop by break and returns.
WaitReturns ==
    /\ main_pc = "waiting"
    /\ polling_task # "running" \/ stop_event
    /\ IF stop_event
       THEN IF polling_task \in {"network_error", "other_error"}
            THEN main_pc' = "except" /\ UNCHANGED polling_task
            ELSE /\ main_pc' = "returned"
                 /\ polling_task' = IF polling_task = "running" THEN "cancelled"
                                    ELSE polling_task
       ELSE main_pc' = "returned" /\ UNCHANGED polling_task
    /\ UNCHANGED <<main_attempt, stop_event, started>>

\* The except clause of the loop, for the exception the polling task held.
MainExcept ==
    /\ main_pc = "except"
    /\ IF stop_event
       THEN main_pc' = "returned" /\ UNCHANGED main_attempt
       ELSE IF is_network_error(polling_task)
       THEN IF main_attempt < BOT_START_MAX_RETRIES - 1
            THEN main_pc' = "loop" /\ main_attempt' = main_attempt + 1
            ELSE main_pc' = "raised" /\ UNCHANGED main_attempt
       ELSE main_pc' = "raised" /\ UNCHANGED main_attempt
    /\ UNCHANGED <<stop_event, polling_task, started>>

MainStep ==
    \/ \E ok \in BOOLEAN : Preflight(ok)
    \/ StartPolling
    \/ \E outcome \in PollingOutcomes : PollingEnds(outcome)
    \/ on_signal
    \/ WaitReturns
    \/ MainExcept

\* The updates the dispatcher hands to the handlers while the polling task runs.
Serving == polling_task = "running" /\ AdminStep

NextMain ==
    \/ MainStep /\ UNCHANGED <<parserVars, localVars, botVars>>
    \/ Serving /\ UNCHANGED <<parserVars, localVars, mainVars>>

SpecMain == InitMain /\ [][NextMain]_vars

-----------------------------------------------------------------------------
\* process_card_number_finish reached by process_card_number or by
\* skip_card_number, for any owner: the account is stored with the number the
\* owner typed, one that other accounts may end in as well, or with none.
process_card_number(o, card_number) ==
    /\ card_seq < MaxCards
    /\ cards_sources' = add_card_source(cards_sources, card_seq, o, card_number)
    /\ card_seq' = card_seq + 1
    /\ UNCHANGED <<fsm, data, inflight, transactions, categories, last, entered>>

\* add_transaction dicts with an amount and any card_hint.
HintResults ==
    [section : {"finance"}, action : {"add_transaction"}, date : {Absent},
     amount : {Number(n) : n \in Amounts},
     type : {Absent, "expense"},
     category : {Absent, "food"},
     note : {"", "lunch"},
     card_hint : Endings]

\* Accounts of any owner with any ending, and assisted texts of a user.
HintStep ==
    \/ \E o \in Owners, e \in Endings : process_card_number(o, e)
    \/ \E u \in Users, r \in HintResults : handle_text_ai(u, r, "edited")
    \/ \E u \in Users : cancel_transaction(u)

NextHint == HintStep /\ UNCHANGED <<parserVars, localVars, mainVars>>

SpecHint == Init /\ [][NextHint]_vars

Next == BotStep /\ UNCHANGED <<parserVars, localVars, mainVars>>

Spec == Init /\ [][Next]_vars

\* A completed draft: what the FSM holds when the confirmation summary is shown.
CompletedDrafts ==
    [amount : {Number(n) : n \in Amounts}, type : {"income", "expense"},
     category : {"food", "custom"}, card_source_id : {Number(c) : c \in CardIds},
     date : {Today}, description : {"", "lunch"}]

\* A user with MaxCards accounts and a completed draft, before any commit.
AwaitingConfirmation ==
    /\ fsm = [u \in Owners |-> "none"]
    /\ \E d \in CompletedDrafts :
          data = [u \in Owners |-> IF u \in Users THEN d ELSE EmptyData]
    /\ inflight = [u \in Owners |-> <<>>]
    /\ cards_sources = [c \in CardIds |-> [user_id |-> CHOOSE u \in Users : TRUE, balance |-> 0,
                                             card_number |-> LastFour(c)]]
    /\ card_seq = MaxCards
    /\ transactions = <<>>
    /\ categories = StockedCategories(Users)
    /\ last = [u \in Owners |-> Other]
    /\ entered = [u \in Owners |-> IF u \in Users THEN "waiting_for_card_source"
                                                  ELSE "none"]

InitConfirm == AwaitingConfirmation /\ ParserIdle /\ LocalIdle /\ Polling

\* Up to MaxConfirms presses of the confirm button, each handled as a task of
\* its own (dp.start_polling(bot, handle_as_tasks=True) in main), and presses of
\* a delete button in between.
ConfirmStep ==
    \E u \in Users :
        \/ confirm_transaction(u, MaxConfirms)
        \/ \E i \in 1 .. MaxConfirms : confirm_transaction_resume(u, i)
        \/ \E c \in CardIds : execute_delete_card(u, c)

NextConfirm == ConfirmStep /\ UNCHANGED <<parserVars, localVars, mainVars>>

SpecConfirm == InitConfirm /\ [][NextConfirm]_vars

\* A text message of a user whose completed draft still awaits confirmation
\* (process_category leaves the FSM state None and keeps the data), and the
\* cancel button of the prompt the new session shows.
SeedStep ==
    \E u \in Users :
        \/ \E r \in Results : \E edit \in EditOutcomesFor(r) : handle_text_ai(u, r, edit)
        \/ cancel_transaction(u)

NextSeed == SeedStep /\ UNCHANGED <<parserVars, localVars, mainVars>>

SpecSeed == InitConfirm /\ [][NextSeed]_vars

\* A user with MaxCards accounts and no session.
WithAccounts ==
    /\ fsm = [u \in Owners |-> "none"]
    /\ data = [u \in Owners |-> EmptyData]
    /\ inflight = [u \in Owners |-> <<>>]
    /\ cards_sources = [c \in CardIds |-> [user_id |-> CHOOSE u \in Users : TRUE, balance |-> 0,
                                             card_number |-> LastFour(c)]]
    /\ card_seq = MaxCards
    /\ transactions = <<>>
    /\ categories = StockedCategories(Users)
    /\ last = [u \in Owners |-> Other]
    /\ entered = [u \in Owners |-> "none"]

InitDate == WithAccounts /\ ParserIdle /\ LocalIdle /\ Polling

\* Text messages whose intent carries a date, and the handlers that take the
\* session they seed to its commit.
DateStep ==
    \E u \in Users :
        \/ \E r \in DatedResults : handle_text_ai(u, r, "edited")
        \/ \E c \in CardIds : process_card_source(u, c)
        \/ \E ev \in {"date_today", "other_callback", "bad_text"} : process_date(u, ev)
        \/ \E description \in {"", "lunch"} : process_description_finish(u, description)
        \/ \E cb \in {"type_expense", "type_income"} : process_type(u, cb)
        \/ \E cb \in {"cat_food", "type_custom_category"} : process_category(u, cb)
        \/ confirm_transaction(u, MaxTx)
        \/ \E i \in 1 .. MaxTx : confirm_transaction_resume(u, i)
        \/ cancel_transaction(u)

NextDate == DateStep /\ UNCHANGED <<parserVars, localVars, mainVars>>

SpecDate == InitDate /\ [][NextDate]_vars

\* Two users, each with one account and no session.
TwoUsers ==
    /\ fsm = [u \in Owners |-> "none"]
    /\ data = [u \in Owners |-> EmptyData]
    /\ inflight = [u \in Owners |-> <<>>]
    /\ cards_sources = [c \in CardIds |-> [user_id |-> IF c = 1 THEN 1 ELSE 2, balance |-> 0,
                                             card_number |-> LastFour(c)]]
    /\ card_seq = MaxCards
    /\ transactions = <<>>
    /\ categories = StockedCategories(Owners)
    /\ last = [u \in Owners |-> Other]
    /\ entered = [u \in Owners |-> "none"]

InitTwo == TwoUsers /\ ParserIdle /\ LocalIdle /\ Polling

\* The add_transaction dicts the two users send: an amount, no note, no card.
TwoUserResults ==
    {r \in Results : /\ r.action = "add_transaction" /\ r.amount \in {Number(n) : n \in Amounts}
                     /\ r.type # "income" /\ r.note = "" /\ r.card_hint = NoNumber}

\* One message or button press of user u.
UserStep(u) ==
    \/ start_add_transaction(u)
    \/ \E r \in TwoUserResults : handle_text_ai(u, r, "edited")
    \/ \E c \in CardIds : process_card_source(u, c)
    \/ \E ev \in {"date_today", "other_callback", "bad_text"} : process_date(u, ev)
    \/ process_description_finish(u, "lunch")
    \/ process_type(u, "type_expense")
    \/ process_category(u, "cat_food")
    \/ confirm_transaction(u, MaxTx)
    \/ \E i \in 1 .. MaxTx : confirm_transaction_resume(u, i)
    \/ cancel_transaction(u)

\* The updates of the two users in any order.
TwoStep == \E u \in Owners : UserStep(u)

NextTwo == TwoStep /\ UNCHANGED <<parserVars, localVars, mainVars>>

SpecTwo == InitTwo /\ [][NextTwo]_vars

\* A user with MaxCards accounts, no session and no category yet.
NoCategories ==
    /\ fsm = [u \in Owners |-> "none"]
    /\ data = [u \in Owners |-> EmptyData]
    /\ inflight = [u \in Owners |-> <<>>]
    /\ cards_sources = [c \in CardIds |-> [user_id |-> CHOOSE u \in Users : TRUE, balance |-> 0,
                                             card_number |-> LastFour(c)]]
    /\ card_seq = MaxCards
    /\ transactions = <<>>
    /\ categories = EmptyBag
    /\ last = [u \in Owners |-> Other]
    /\ entered = [u \in Owners |-> "none"]

InitCategory == NoCategories /\ ParserIdle /\ LocalIdle /\ Polling

\* The names typed as a custom category: a new one and one of the defaults.
CustomNames == {"custom", "food"}

\* The add_transaction dicts that lead to the type and category prompts.
CategoryResults ==
    {r \in Results : /\ r.action = "add_transaction" /\ r.amount \in {Number(n) : n \in Amounts}
                     /\ r.category = Absent /\ r.note = "" /\ r.card_hint = NoNumber}

\* The handlers that read or write the category table, and the ones that open
\* and close the sessions they run in.
CategoryStep ==
    \E u \in Users :
        \/ \E r \in CategoryResults : handle_text_ai(u, r, "edited")
        \/ \E cb \in {"type_expense", "type_income"} : process_type(u, cb)
        \/ \E cb \in {"cat_food", "type_custom_category"} : process_category(u, cb)
        \/ start_custom_category_input(u)
        \/ \E category_name \in CustomNames : process_custom_category(u, category_name)
        \/ start_add_card_source(u)
        \/ cancel_transaction(u)

NextCategory == CategoryStep /\ UNCHANGED <<parserVars, localVars, mainVars>>

SpecCategory == InitCategory /\ [][NextCategory]_vars

-----------------------------------------------------------------------------
(* Claims about the credential pool, checked under SpecParser *)

AllFailed == failed_keys = Keys

\* C2: once every index of GEMINI_API_KEYS is in failed_keys, a parse_message
\* call that starts afterwards makes no remote call: it never reaches
\* generate_content and answers with the rule-based result.
C2_NoRemoteCallOnceAllFailed ==
    [][\A t \in Tasks :
          (AllFailed /\ pc[t] = "idle") => pc'[t] # "calling"]_vars

\* C7: once an index is in failed_keys it is never used again: no step starts
\* a generate_content call with a client built from it, and no step starts a
\* client creation with it.
C7_FailedKeyNeverUsedAgain ==
    [][\A t \in Tasks :
          /\ (event'.task = t /\ pc'[t] = "calling")
                => callKey'[t] \notin failed_keys
          /\ (event'.task = t /\ pc'[t] = "creating")
                => api_key_index'[t] \notin failed_keys]_vars

\* C10: for every interleaving of concurrent parse_message calls, an index
\* enters failed_keys only in a step in which a remote call made with that very
\* credential returned a quota error, or a client creation with that very
\* credential failed.
C10_OnlyTheFailingKeyIsMarked ==
    [][\A k \in failed_keys' \ failed_keys :
          /\ event'.key = k
          /\ event'.kind \in {"gen_quota", "create_fail"}]_vars

-----------------------------------------------------------------------------
(* Claims about the rule-based extractor, checked under SpecLocal *)

\* The text contains a keyword of the destination (letter case ignored, as the
\* keywords are compared with the lowered text).
TypedKeywordOf(key) == \E kw \in NavKeywords(key) : KwIn(kw, Lower(text))
NavKeys == {NavOrder[i] : i \in 1 .. Len(NavOrder)}

\* C6: for every text that contains a navigation keyword of nav_map,
\* _local_parse returns the navigation intent of a destination one of whose
\* keywords the text contains, never add_transaction or a later-stage action,
\* whatever type keywords, amounts or dates the text also contains.
C6_NavigationHasPriority ==
    (intent # NoIntent /\ \E key \in NavKeys : TypedKeywordOf(key))
        => \E key \in NavKeys : TypedKeywordOf(key) /\ intent = NavIntent(key)

\* A parsed text with a navigation keyword, a type keyword and an amount.
C6_Witness ==
    /\ intent # NoIntent
    /\ KwIn(<<"report">>, text)
    /\ KwIn(<<"paid">>, text)
    /\ KwIn(<<"200">>, text)
    /\ intent.action = "monthly_report"

-----------------------------------------------------------------------------
(* Claims about the transaction session, checked under Spec *)

\* The signed change add_transaction applies to the account of a row.
Delta(row) == IF row.type = "income" THEN row.amount ELSE 0 - row.amount

NewRow == transactions'[Len(transactions')]

\* C1: a commit has no partial effect: a step that inserts a transaction row
\* naming an account changes the balance of that account by exactly the amount
\* (added for income, subtracted otherwise), and no balance changes in a step
\* that inserts no row.
C1_RowAndBalanceTogether ==
    [][/\ Len(transactions') > Len(transactions) /\ NewRow.card_source_id # NoNumber
            => LET c == NewRow.card_source_id[1]
               IN  /\ c \in DOMAIN cards_sources /\ c \in DOMAIN cards_sources'
                   /\ cards_sources'[c].balance = cards_sources[c].balance + Delta(NewRow)
       /\ Len(transactions') = Len(transactions)
            => \A c \in DOMAIN cards_sources \cap DOMAIN cards_sources' :
                  cards_sources'[c].balance = cards_sources[c].balance]_vars

\* The draft handle_text_ai seeds from an intent with an amount and a type of
\* income or expense, and neither a category nor a resolved account.
SeededWithoutCategoryAndAccount(u) ==
    /\ last[u].kind = "seed"
    /\ HasAmount(data[u]) /\ data[u].amount[1] > 0
    /\ data[u].type \in {"income", "expense"}
    /\ ~Truthy(data[u].category)
    /\ data[u].card_source_id = NoNumber

\* C3: after handle_text_ai has seeded a draft with amount and type but without
\* category and account, the session is in waiting_for_category (the category
\* prompt was sent), and a session entered there is never in waiting_for_amount
\* or waiting_for_type: the amount prompt and the type prompt are sent only by
\* handlers that then set these states.
C3_CategoryNextAmountAndTypeNeverAgain ==
    \A u \in Users :
        /\ SeededWithoutCategoryAndAccount(u)
              => fsm[u] = "waiting_for_category" /\ entered[u] = "waiting_for_category"
        /\ entered[u] = "waiting_for_category"
              => fsm[u] \notin {"waiting_for_amount", "waiting_for_type"}

\* A session seeded that way in which the user has already picked a category.
C3_Witness ==
    \E u \in Users :
        /\ entered[u] = "waiting_for_category"
        /\ fsm[u] = "waiting_for_category"
        /\ data[u].type = "expense"
        /\ data[u].category = "food"
        /\ data[u].card_source_id = NoNumber

\* C4: after handle_text_ai has handled an add_transaction intent whose amount
\* is missing or not positive, the user's FSM state is waiting_for_amount.
C4_AmountMissingEndsInAmountState ==
    \A u \in Users : last[u].kind = "amount_missing" => fsm[u] = "waiting_for_amount"


\* The fields of a draft that hold a value.
Filled(d) == {f \in DOMAIN d : d[f] # EmptyData[f]}

\* C5: after a cancel, in whatever state it arrived, the FSM state is None and
\* the FSM data is empty; the step of the cancel inserts no transaction row; and
\* the session started next holds nothing but what its own intent seeds.
C5_CancelClearsTheSession ==
    [][\A u \in Users :
          /\ last'[u].kind = "cancel"
                => /\ fsm'[u] = "none"
                   /\ data'[u] = EmptyData
                   /\ transactions' = transactions
          /\ (last[u].kind = "cancel" /\ fsm'[u] \in TransactionStates)
                => \/ data'[u] = EmptyData
                   \/ /\ last'[u].kind = "seed"
                      /\ \E r \in Results : data'[u] = SeedData(cards_sources, u, r)]_vars

\* A cancel that arrived in waiting_for_category, where the draft holds an
\* amount and a type.
C5_Witness ==
    \E u \in Users : last[u] = [kind |-> "cancel", in |-> "waiting_for_category"]

\* C8: the account id held in a session belongs to the session's user whenever
\* the account exists.
C8_SessionAccountBelongsToUser ==
    \A u \in Users :
        get_card_source(cards_sources, data[u].card_source_id)
            => cards_sources[data[u].card_source_id[1]].user_id = u


-----------------------------------------------------------------------------
(* Claims about concurrent confirmations, checked under SpecConfirm *)

\* C9: however the confirmations of one completed draft interleave, at most one
\* transaction row is written, and the only balance that changes is that of the
\* row's account, by the amount of the row, once.
C9_OneRowOneBalanceUpdate ==
    /\ Len(transactions) <= 1
    /\ \A c \in DOMAIN cards_sources :
          cards_sources[c].balance # 0
              => /\ Len(transactions) = 1
                 /\ transactions[1].card_source_id = Number(c)
                 /\ cards_sources[c].balance = Delta(transactions[1])


-----------------------------------------------------------------------------
(* Claims about one request of parse_message, checked under SpecParser *)

\* C11: one parse_message request calls generate_content at most as many times
\* as there are credentials, whatever the remote side answers and however the
\* requests interleave; every path of the request then ends in a return.
C11_AtMostOneCallPerCredential ==
    \A t \in Tasks : calls[t] <= NumKeys


\* C12: a request whose retry (its second call of generate_content) ends in a
\* quota error makes no further call: it returns the rule-based intent.
C12_SingleRetryThenFallback ==
    [][\A t \in Tasks :
          (CallQuota(t) /\ calls[t] = 2) => (pc'[t] = "idle" /\ result'[t] = "local")]_vars


C13_WitnessAllFailed ==
    /\ event.kind = "create_fail"
    /\ pc[event.task] = "idle"
    /\ result[event.task] = "local"
    /\ calls[event.task] = 0

\* Not claimed, and not true of concurrent requests: the credential tried after
\* a failure is the first unmarked one after the failed one in cyclic order.
CreateFailTriesTheCyclicNext ==
    [][\A t \in Tasks :
          (CreateFail(t) /\ pc'[t] = "creating") =>
             api_key_index'[t] = SwitchSearch(0, api_key_index[t], failed_keys')]_vars


-----------------------------------------------------------------------------
(* Claims about the transaction session, checked under Spec *)

\* C14: when the user answers the type prompt or the category prompt of a
\* session whose account is still unset, the handler completes and the session
\* leaves the state it was prompted in.
C14_AnswerWithoutAccountMovesOn ==
    [][\A u \in Users :
          (/\ data[u].card_source_id = NoNumber
           /\ \/ \E cb \in {"type_expense", "type_income"} : process_type(u, cb)
              \/ process_category(u, "cat_food"))
          => fsm'[u] # fsm[u]]_vars


\* C15: a session that handle_text_ai entered at the account prompt or at the
\* description prompt (date, type and category came with the intent) never
\* moves to the date, type or category prompt.
C15_SeededFieldsAreNotAskedAgain ==
    [][\A u \in Users :
          (/\ entered'[u] \in {"waiting_for_card_source", "waiting_for_description"}
           /\ fsm'[u] # fsm[u])
          => fsm'[u] \notin {"waiting_for_date", "waiting_for_type", "waiting_for_category"}]_vars


\* C16: in a session started by start_add_transaction, an amount text with
\* digits in it, sent by a user who has an account, is followed by the
\* transaction-type state, the second state of the manual order.
C16_ManualAmountAnswerLeadsToType ==
    [][\A u \in Users :
          (/\ entered[u] = "waiting_for_amount"
           /\ get_cards_sources(cards_sources, u) # {}
           /\ \E n \in Amounts : process_amount(u, Number(n)))
          => fsm'[u] = "waiting_for_type"]_vars


C18_InvalidInputIsRepromptedInPlace ==
    [][\A u \in Users :
          /\ process_amount(u, NoNumber) =>
                /\ last'[u].kind = "invalid_amount"
                /\ fsm'[u] = fsm[u] /\ data'[u] = data[u]
                /\ transactions' = transactions
          /\ process_date(u, "bad_text") =>
                /\ last'[u].kind = "invalid_date"
                /\ fsm'[u] = fsm[u] /\ data'[u] = data[u]
                /\ transactions' = transactions]_vars

\* Not claimed in this form: every row of the transactions table has an amount
\* greater than zero.
RowsHavePositiveAmount ==
    \A i \in 1 .. Len(transactions) : transactions[i].amount > 0


\* C19: when the account picked in process_card_source is not in the table, or
\* is owned by somebody else, the session is aborted (FSM state None, data
\* empty) and no transaction is written.
C19_ForeignOrMissingAccountAborts ==
    [][\A u \in Users : \A c \in CardIds :
          (/\ process_card_source(u, c)
           /\ c \notin get_cards_sources(cards_sources, u))
          => /\ fsm'[u] = "none"
             /\ data'[u] = EmptyData
             /\ transactions' = transactions]_vars


\* C20: every intent that is no transaction gets an answer from handle_text_ai:
\* the reply of the branch that owns its (section, action) pair, the refusal of
\* the admin section, or the default 'not understood' menu.
C20_EveryIntentIsAnswered ==
    [][\A u \in Users : \A r \in Results :
          (/\ r.action # "add_transaction"
           /\ handle_text_ai(u, r, "edited"))
          => last'[u].kind \in {"other", "access_denied", "not_understood"}]_vars


\* What a field of a seeded session may hold when it comes from the intent r or
\* is unset.
FromIntent(cs, u, r, f) ==
    CASE f = "amount" -> {r.amount}
      [] f = "type" -> {r.type, "None"}
      [] f = "category" -> {r.category, "None"}
      [] f = "date" -> {IF r.date = Absent THEN Today ELSE r.date}
      [] f = "description" -> {r.note, ""}
      [] f = "card_source_id" ->
            {NoNumber} \cup {Number(c) : c \in {x \in get_cards_sources(cs, u) :
                                                  cs[x].card_number = r.card_hint}}

\* C21: when handle_text_ai seeds a session from an add_transaction intent
\* while the data of an earlier session is still held, every field of the
\* session afterwards comes from the new intent or is unset (or the session was
\* committed at once and is empty).
C21_SeedReplacesEarlierSession ==
    [][\A u \in Users :
          (data[u] # EmptyData /\ last'[u].kind = "seed")
          => \A r \in Results :
                (/\ r.action = "add_transaction" /\ ~AmountMissing(r)
                 /\ handle_text_ai(u, r, "edited"))
                => \/ data'[u] = EmptyData
                   \/ \A f \in DOMAIN EmptyData :
                         data'[u][f] \in FromIntent(cards_sources, u, r, f)]_vars

\* A session seeded over an earlier draft, asking for a category the new
\* intent did not carry.
C21_Witness ==
    \E u \in Users :
        /\ last[u] = [kind |-> "seed", in |-> "draft"]
        /\ fsm[u] = "waiting_for_category"
        /\ data[u].category = "None"


-----------------------------------------------------------------------------
(* Claims about stored dates, checked under SpecDate *)

\* C22: the date of every row of the transactions table has the form
\* YYYY-MM-DD, whether the row was written by the immediate commit of
\* handle_text_ai or by confirm_transaction.
C22_StoredDatesHaveIsoForm ==
    \A i \in 1 .. Len(transactions) : Sep(transactions[i].date) = "-"

\* Not the claim's formula: the stored date is also a date of the Gregorian
\* calendar (a Jalali text written with dashes passes the form test).
GregorianIso(s) == s \in {Today, "2025-01-01", "2025-12-20"}

StoredDatesAreGregorian ==
    \A i \in 1 .. Len(transactions) : GregorianIso(transactions[i].date)

\* C23: the type of every row of the transactions table is income or expense.
C23_StoredTypeIsIncomeOrExpense ==
    \A i \in 1 .. Len(transactions) : transactions[i].type \in {"income", "expense"}


\* C24: handling a message or a button press of one user leaves the FSM state
\* and the accumulated fields of every other user as they were, in every
\* interleaving of the users' updates.
C24_OtherSessionsUntouched ==
    [][\A a \in Owners :
          UserStep(a) => \A b \in Owners \ {a} : fsm'[b] = fsm[b] /\ data'[b] = data[b]]_vars

\* Both users hold an open session, each in a state of its own.
C24_Witness ==
    /\ fsm[1] = "waiting_for_category" /\ data[1].type = "expense"
    /\ fsm[2] = "waiting_for_date" /\ data[2].category = "food"
    /\ Len(transactions) = 1

\* C25: process_custom_category inserts a row (user, name, current type) only
\* when the user has no row with that name and type, inserts nothing else, and
\* leaves exactly one such row, however often the same name is typed.
C25_CustomCategoryCreatedOnce ==
    [][\A u \in Users : \A category_name \in CustomNames :
          process_custom_category(u, category_name)
          => LET row == CategoryRow(u, category_name, current_type(data[u]))
             IN  /\ \A x \in BagToSet(categories') :
                       CopiesIn(x, categories') # CopiesIn(x, categories)
                       => x = row /\ CopiesIn(row, categories) = 0
                 /\ CopiesIn(row, categories') = 1]_vars

\* No (user, name, type) is held by two rows of the category table.
CategoryRowsAreUnique ==
    \A x \in BagToSet(categories) : CopiesIn(x, categories) = 1

\* process_custom_category inserts at most the row of the name typed, and only
\* when get_categories does not return the name.
CustomCategoryInsertedOnlyIfNew ==
    [][\A u \in Users : \A category_name \in CustomNames :
          process_custom_category(u, category_name)
          => LET row == CategoryRow(u, category_name, current_type(data[u]))
             IN  \A x \in BagToSet(categories') :
                    CopiesIn(x, categories') # CopiesIn(x, categories)
                    => x = row /\ CopiesIn(row, categories) = 0]_vars

\* C26: a text that holds an income keyword and an expense keyword, and no
\* navigation keyword, is classified as type expense.
C26_BothKeywordsGiveExpense ==
    (/\ intent # NoIntent
     /\ \E w \in income_words : KwIn(<<w>>, Lower(text))
     /\ \E w \in expense_words : KwIn(<<w>>, Lower(text))
     /\ FirstNav(1, Lower(text)) = 0)
    => intent.type = "expense"

\* C27: for the Persian sentence of SampleTexts the extractor returns an
\* add_transaction intent with type expense, amount 200 and currency toman
\* (the dict of _local_parse never holds a category).
C27_PersianSentence ==
    (intent # NoIntent /\ text = <<"emruz", "fa-200", "tomn", "ghaza", "dadam">>)
    => /\ intent.section = "finance" /\ intent.action = "add_transaction"
       /\ intent.type = "expense"
       /\ intent.amount = Number(200)
       /\ intent.currency = "toman"

\* C28: for "200,000 toman rent" the extractor returns an add_transaction intent
\* with amount 200000 and currency toman: the groups of a thousands-separated
\* number (a comma or whitespace between them) are read as one amount, and the
\* currency word after it is its currency.
C28_ThousandsSeparatedAmount ==
    intent # NoIntent
    => /\ text = <<"200,000", "toman", "rent">>
          => /\ intent.section = "finance" /\ intent.action = "add_transaction"
             /\ intent.amount = Number(200000)
             /\ intent.currency = "toman"
       /\ text = <<"200", "200", "toman">>
          => /\ intent.action = "add_transaction"
             /\ intent.amount = Number(200200)
             /\ intent.currency = "toman"

\* The sentence of C28 has been parsed.
C28_Witness ==
    /\ text = <<"200,000", "toman", "rent">>
    /\ intent.action = "add_transaction" /\ intent.amount = Number(200000)

\* C29: when the remote reply is no JSON, or the call raises an error that is
\* no quota error, parse_message returns the rule-based result without another
\* call and leaves failed_keys, current_api_key_index and the client as they were.
C29_BadReplyFallsBackAndKeepsThePool ==
    [][\A t \in Tasks :
          (/\ pc[t] = "calling" /\ event'.task = t
           /\ event'.kind \in {"gen_badjson", "gen_other"})
          => /\ pc'[t] = "idle" /\ result'[t] = "local" /\ calls'[t] = calls[t]
             /\ failed_keys' = failed_keys
             /\ current_api_key_index' = current_api_key_index
             /\ client' = client]_vars

\* A request ended on an unreadable reply after one key had been marked; the
\* client of the other key is still in place.
C29_Witness ==
    /\ event.kind = "gen_badjson" /\ result[event.task] = "local"
    /\ pc[event.task] = "idle"
    /\ client # NoClient /\ client = event.key /\ failed_keys # {}

\* The number of steps from index cur to index k in cyclic order.
CyclicDistance(cur, k) == (k - cur + NumKeys) % NumKeys

\* C30: credential selection is round-robin.  A key whose client creation
\* succeeds is the first one, in cyclic order from current_api_key_index, that
\* is not in failed_keys; after a quota failure the key made current is the first
\* one after the key that failed that is not in failed_keys; and a key is never
\* in failed_keys at the moment it becomes current.
C30_RoundRobinSelection ==
    [][\A t \in Tasks :
          /\ (pc[t] = "creating" /\ event'.task = t /\ event'.kind = "create_ok")
             => /\ \A a \in 0 .. CyclicDistance(current_api_key_index, api_key_index[t]) - 1 :
                      KeyAt(current_api_key_index, a) \in failed_keys
                /\ current_api_key_index' = api_key_index[t]
                /\ current_api_key_index' \notin failed_keys'
          /\ (/\ pc[t] = "calling" /\ event'.task = t /\ event'.kind = "gen_quota"
              /\ current_api_key_index' # current_api_key_index)
             => /\ \A a \in 1 .. CyclicDistance(callKey[t], current_api_key_index') - 1 :
                      KeyAt(callKey[t], a) \in failed_keys'
                /\ current_api_key_index' # callKey[t]
                /\ current_api_key_index' \notin failed_keys']_vars

\* C31: in the state waiting_for_category the press of the custom-category
\* button (callback type_custom_category) moves the session to
\* waiting_for_custom_category, whichever handler the dispatcher gives it to.
C31_CustomButtonOpensFreeText ==
    [][\A u \in Users :
          (/\ fsm[u] = "waiting_for_category"
           /\ \/ process_category(u, "type_custom_category")
              \/ start_custom_category_input(u))
          => fsm'[u] = "waiting_for_custom_category"]_vars

\* C32: for a text of the form "report from <date> to <date>", or its Persian
\* form, the extractor returns the action report_range with start_date and
\* end_date set to the two dates of the text.
C32_ReportRangeIsExtracted ==
    (intent # NoIntent /\ text \in RangeTexts)
    => /\ intent.section = "finance" /\ intent.action = "report_range"
       /\ intent.start_date = text[3] /\ intent.end_date = text[5]

\* C33: for a text without navigation keyword, _local_parse returns
\* add_transaction exactly when the text holds an income or expense keyword or
\* a number was parsed as the amount, whatever its value (zero included).
C33_TransactionIffKeywordOrNumber ==
    (intent # NoIntent /\ FirstNav(1, Lower(text)) = 0)
    => (intent.action = "add_transaction"
        <=> (TxType(Lower(text)) # Absent \/ Amount(Lower(text)) # NoNumber))

\* C34: an intent of the extractor carries an amount only when one was
\* extracted from the text; without a number in the text the field is absent,
\* not 0.
C34_AmountAbsentWhenNotExtracted ==
    (intent # NoIntent /\ Amount(Lower(text)) = NoNumber) => intent.amount = NoNumber

RECURSIVE BalanceFrom(_, _, _)
BalanceFrom(rows, i, c) ==
    IF i > Len(rows) THEN 0
    ELSE (IF rows[i].card_source_id = Number(c) THEN Delta(rows[i]) ELSE 0)
         + BalanceFrom(rows, i + 1, c)

\* C36: after any sequence of add_transaction, clear_user_data,
\* clear_financial_data, add_card_source and delete_card_source calls, by any
\* users and on any account ids, the balance of every existing account is the
\* sum of the stored income amounts that reference it minus the sum of the
\* other stored amounts that reference it.
C36_BalanceIsSumOfStoredRows ==
    \A c \in DOMAIN cards_sources :
        cards_sources[c].balance = BalanceFrom(transactions, 1, c)

\* C37: in the type state only the two type choices set the type of the
\* session: when process_type runs on another button that is not cancel (the
\* confirm button of an earlier summary), the type of the session stays as it
\* was and the session stays in the type state.
C37_OtherButtonLeavesTypeUnset ==
    [][\A u \in Users :
          process_type(u, "confirm_transaction")
          => /\ data'[u].type = data[u].type
             /\ fsm'[u] = "waiting_for_type"]_vars

\* The user's own accounts whose card number ends in the hint.
OwnMatches(u, hint) ==
    {c \in DOMAIN cards_sources :
        /\ cards_sources[c].user_id = u
        /\ hint # NoNumber
        /\ cards_sources[c].card_number = hint}

\* The account a step of handle_text_ai filled in: the one of the row it
\* stored, or the one of the session it seeded.
PreFilled(u) ==
    IF Len(transactions') > Len(transactions)
    THEN transactions'[Len(transactions')].card_source_id
    ELSE data'[u].card_source_id

C39_NoAdminReadsForOtherUsers ==
    [][\A u \in Owners \ ADMIN_IDS, r \in OtherResults :
          (r.section = "admin" /\ handle_text_ai_by(u, r, "edited", is_admin(u)))
          => /\ last'[u].kind = "access_denied"
             /\ admin_reads(r.action, is_admin(u)) = {}]_vars

\* C39 witness: the user who is no admin was refused after the admin had been
\* answered.
C39_Witness ==
    /\ \A u \in Owners \ ADMIN_IDS : last[u].kind = "access_denied"
    /\ \A u \in ADMIN_IDS : last[u] = Other

\* main() ends in this step.
MainEnds == main_pc \notin {"returned", "raised"} /\ main_pc' \in {"returned", "raised"}

\* C40: main() starts polling at most BOT_START_MAX_RETRIES times; it starts
\* another attempt only after an error classified as a network error; when the
\* polling ended with an error that is no network error, or with a network
\* error in the last attempt, and no stop was requested, main() ends by raising
\* it; it never starts another attempt once the stop event is set.
C40_PollingRetries ==
    [][/\ started' <= BOT_START_MAX_RETRIES
       /\ (started' > started /\ started > 0)
             => (polling_task = "network_error" /\ ~stop_event)
       /\ (/\ MainEnds
           /\ ~stop_event
           /\ \/ polling_task = "other_error"
              \/ (/\ polling_task = "network_error"
                  /\ main_attempt = BOT_START_MAX_RETRIES - 1))
             => main_pc' = "raised"]_vars

=============================================================================
